---- MODULE Spec2Model ----
(***************************************************************************)
(* State-machine model of the 8-puzzle solver in src/project.py: the two   *)
(* module-level grids, the neighbour generator, the solvability test, the  *)
(* shuffle loop, the three search strategies (bfs, dfs, ucs) unrolled one  *)
(* loop iteration per step, and solve_puzzle / reset_puzzle as the events  *)
(* of the main loop.  Rendering (pygame) is not modelled.                  *)
(*                                                                         *)
(* A grid is a tuple of three rows of three values, as in the source.      *)
(* Python indices are 0-based and TLA+ tuples 1-based: positions are kept  *)
(* 0-based (find_zero(goal_state) = <<2, 2>>) and shifted when indexing.   *)
(***************************************************************************)
EXTENDS Integers, Sequences, FiniteSets, TLC

\* ------------------------------------------------------------------ bounds
\* a caller of shuffle_puzzle passes a `moves` argument in 0..MaxMoves
MaxMoves == 4
\* a caller of dfs passes a `depth_limit` argument in 0..MaxDepthLimit
MaxDepthLimit == 3
\* a caller that shuffles a copy of the goal, as reset_puzzle does, passes a
\* `moves` argument in 0..MaxShuffleMoves
MaxShuffleMoves == 6
\* solve_puzzle("DFS") is called on grids at most MaxQuickSlides slides away
\* from the goal from which dfs, with its default depth limit, returns
\* within MaxDfsPasses passes of its loop
MaxQuickSlides == 4
MaxDfsPasses == 40
\* the program is taken up in a shuffle that has at most MaxTailPasses passes
\* of its loop left
MaxTailPasses == 1
\* the grids a caller passes in are at most MaxInputSlides slides away from
\* the goal, or from the goal with 7 and 8 exchanged
MaxInputSlides == 1
\* the grids handed to a direct call are at most MaxCallSlides slides away
\* from the goal, or from the goal with 7 and 8 exchanged
MaxCallSlides == 3
\* dfs is followed in full with the depth limit MaxDeepLimit, on grids at
\* most MaxDfsSlides slides away from the goal
MaxDeepLimit == 11
MaxDfsSlides == 2

\* --------------------------------------------------------------- constants
GRID_SIZE == 3
\* lines 244 and 261: shuffle_puzzle(initial_state, moves=30)
SHUFFLE_MOVES == 30
\* line 135: dfs(start, goal, depth_limit=50), the limit of the call of line 202
DEFAULT_DEPTH_LIMIT == 50

\* Python values that are either None or a list
PyNone == [kind |-> "None", list |-> <<>>]
PyList(s) == [kind |-> "list", list |-> s]
\* truth value of `if path:` -- None and the empty list are both falsy
Truthy(v) == v.kind = "list" /\ v.list # <<>>

\* the literal of line 35
GoalLiteral == << <<1, 2, 3>>, <<4, 5, 6>>, <<7, 8, 0>> >>

\* [row[:] for row in state]
CopyGrid(state) == [r \in 1..Len(state) |-> state[r]]

\* ------------------------------------------------------------- find_zero
\* row-major scan, first cell holding 0; <<>> stands for None
ZeroCells(state) ==
    {rc \in (0..GRID_SIZE-1) \X (0..GRID_SIZE-1) : state[rc[1]+1][rc[2]+1] = 0}

find_zero(state) ==
    IF ZeroCells(state) = {} THEN <<>>
    ELSE CHOOSE rc \in ZeroCells(state) :
            \A o \in ZeroCells(state) :
                rc[1] < o[1] \/ (rc[1] = o[1] /\ rc[2] <= o[2])

\* --------------------------------------------------------- get_neighbors
\* line 74 with the last direction mistyped as a diagonal
directions_diagonal == << <<-1, 0>>, <<1, 0>>, <<0, -1>>, <<1, 1>> >>

\* line 74 with the last direction left out
directions_short == << <<-1, 0>>, <<1, 0>>, <<0, -1>> >>

directions == << <<-1, 0>>, <<1, 0>>, <<0, -1>>, <<0, 1>> >>

\* lines 78-81 without line 80: the adjacent cell is blanked, its tile lost
SlideInto_drops_tile(state, zero_pos, new_row, new_col) ==
    [state EXCEPT ![new_row+1][new_col+1] = 0]

\* lines 78-81: copy, move the adjacent tile into the blank cell, blank it
SlideInto(state, zero_pos, new_row, new_col) ==
    LET moved == state[new_row+1][new_col+1]
        s1 == [state EXCEPT ![zero_pos[1]+1][zero_pos[2]+1] = moved]
    IN  [s1 EXCEPT ![new_row+1][new_col+1] = 0]

\* line 77
InBounds(new_row, new_col) ==
    /\ 0 <= new_row /\ new_row < GRID_SIZE
    /\ 0 <= new_col /\ new_col < GRID_SIZE

RECURSIVE NeighborsFrom(_, _, _)
NeighborsFrom(state, zero_pos, k) ==
    IF k > Len(directions) THEN <<>>
    ELSE LET new_row == zero_pos[1] + directions[k][1]
             new_col == zero_pos[2] + directions[k][2]
             rest == NeighborsFrom(state, zero_pos, k + 1)
         IN  IF InBounds(new_row, new_col)
             THEN <<SlideInto(state, zero_pos, new_row, new_col)>> \o rest
             ELSE rest

get_neighbors(state) == NeighborsFrom(state, find_zero(state), 1)

\* ------------------------------------------------------ sets of grids
\* the unsolvable grid of the spec's scenario: goal with 7 and 8 exchanged
OddLiteral == << <<1, 2, 3>>, <<4, 5, 6>>, <<8, 7, 0>> >>

Range(s) == {s[k] : k \in 1..Len(s)}

\* the grids at most k slides away from a grid of S
RECURSIVE Ball(_, _)
Ball(S, k) ==
    IF k = 0 THEN S
    ELSE LET B == Ball(S, k - 1) IN
         B \cup UNION {Range(get_neighbors(g)) : g \in B}

\* ----------------------------------------------------------- is_solvable
\* line 88: row-major values
Flatten(state) ==
    [k \in 1..(GRID_SIZE * GRID_SIZE) |->
        state[((k - 1) \div GRID_SIZE) + 1][((k - 1) % GRID_SIZE) + 1]]

\* line 88 without its `if num != 0`
FlatFilter_keeps_blank(num) == TRUE

\* line 88: the blank is left out of the flattened list
FlatFilter(num) == num # 0

flat_state(state) == SelectSeq(Flatten(state), FlatFilter)

\* lines 89-94
Inversions(flat) ==
    Cardinality({p \in (1..Len(flat)) \X (1..Len(flat)) :
                    p[1] < p[2] /\ flat[p[1]] > flat[p[2]]})

is_solvable(state) == Inversions(flat_state(state)) % 2 = 0

\* -------------------------------------------------------- shuffle_puzzle
\* line 102 as `state = value`: the local name is rebound, the caller's list
\* object keeps its rows
SliceAssign_rebinds(target, value) == target

\* line 102, `state[:] = value`: the list object the caller passed takes the
\* rows of `value`; the result is the content of that object afterwards
SliceAssign(target, value) == value

\* ------------------------------------------------------ reconstruct_path
EmptyMap == [x \in {} |-> x]

Reverse(s) == [k \in 1..Len(s) |-> s[Len(s) + 1 - k]]

\* lines 108-110: the loop, `path` accumulated goal-first
RECURSIVE Backtrack(_, _, _)
Backtrack(came_from, current, path) ==
    IF current \in DOMAIN came_from
    THEN Backtrack(came_from, came_from[current], Append(path, current))
    ELSE path

reconstruct_path(came_from, current) == Reverse(Backtrack(came_from, current, <<>>))

\* -------------------------------------------------------------------- bfs
\* state of a search call: its locals and, once it has returned, its value
Running == [kind |-> "running", list |-> <<>>]

\* lines 117-120 without line 119: the start is queued but not marked
bfs_init_unmarked(start) ==
    [queue |-> <<start>>, visited |-> {}, came_from |-> EmptyMap,
     ret |-> Running]

\* lines 117-120
bfs_init(start) ==
    [queue |-> <<start>>, visited |-> {start}, came_from |-> EmptyMap,
     ret |-> Running]

\* line 130 left out: the neighbour is queued but not marked
MarkVisited_skipped(visited, neighbor) == visited

\* line 130: visited.add(tuple(map(tuple, neighbor)))
MarkVisited(visited, neighbor) == visited \cup {neighbor}

\* lines 127-132, neighbours k.. of the list
RECURSIVE bfs_expand(_, _, _, _)
bfs_expand(st, current, neighbors, k) ==
    IF k > Len(neighbors) THEN st
    ELSE LET neighbor == neighbors[k] IN
         IF neighbor \notin st.visited
         THEN bfs_expand([st EXCEPT !.queue = Append(@, neighbor),
                                    !.visited = MarkVisited(@, neighbor),
                                    !.came_from = (neighbor :> current) @@ @],
                         current, neighbors, k + 1)
         ELSE bfs_expand(st, current, neighbors, k + 1)

\* line 123: the deque after popleft()
popleft_rest(queue) == Tail(queue)

\* lines 122-133: one pass of the while loop (or its exit)
bfs_iter(st, goal) ==
    IF st.queue = <<>> THEN [st EXCEPT !.ret = PyNone]
    ELSE LET current == Head(st.queue)
             popped == [st EXCEPT !.queue = popleft_rest(@)]
         IN  IF current = goal
             THEN [popped EXCEPT !.ret = PyList(reconstruct_path(st.came_from, current))]
             ELSE bfs_expand(popped, current, get_neighbors(current), 1)

RECURSIVE bfs_loop(_, _)
bfs_loop(st, goal) ==
    IF st.ret # Running THEN st.ret ELSE bfs_loop(bfs_iter(st, goal), goal)

bfs(start, goal) == bfs_loop(bfs_init(start), goal)

\* -------------------------------------------------------------------- dfs
\* lines 136-137; a stack entry is <<current_state, path_taken, depth>>
dfs_init(start) ==
    [stack |-> << <<start, <<>>, 0>> >>, visited |-> {}, ret |-> Running]

\* lines 156-159 without the test of line 158: every neighbour is pushed
RECURSIVE dfs_push_any(_, _, _, _, _)
dfs_push_any(st, current, path, depth, rev) ==
    IF rev = <<>> THEN st
    ELSE dfs_push_any([st EXCEPT !.stack =
                           Append(@, <<Head(rev), Append(path, current), depth + 1>>)],
                      current, path, depth, Tail(rev))

\* lines 156-159: neighbours pushed last-emitted first
RECURSIVE dfs_push(_, _, _, _, _)
dfs_push(st, current, path, depth, rev) ==
    IF rev = <<>> THEN st
    ELSE LET neighbor == Head(rev) IN
         IF neighbor \notin st.visited
         THEN dfs_push([st EXCEPT !.stack =
                            Append(@, <<neighbor, Append(path, current), depth + 1>>)],
                       current, path, depth, Tail(rev))
         ELSE dfs_push(st, current, path, depth, Tail(rev))

\* line 156 without `reversed`: neighbours pushed in the order emitted
PushOrder_forward(neighbors) == neighbors

\* line 156: reversed(get_neighbors(current_state))
PushOrder(neighbors) == Reverse(neighbors)

\* line 144 with the limit off by one
DepthExceeded_late(depth, depth_limit) == depth > depth_limit + 1

\* line 144
DepthExceeded(depth, depth_limit) == depth > depth_limit

\* line 147 never true: a popped grid is taken as new
InVisited_ignored(current, visited) == FALSE

\* line 147: current_tuple in visited
InVisited(current, visited) == current \in visited

\* lines 139-161: one pass of the while loop (or its exit)
dfs_iter(st, goal, depth_limit) ==
    IF st.stack = <<>> THEN [st EXCEPT !.ret = PyNone]
    ELSE LET top == st.stack[Len(st.stack)]
             current == top[1]
             path == top[2]
             depth == top[3]
             popped == [st EXCEPT !.stack = SubSeq(@, 1, Len(@) - 1)]
         IN  IF DepthExceeded(depth, depth_limit) THEN popped
             ELSE IF InVisited(current, st.visited) THEN popped
             ELSE LET marked == [popped EXCEPT !.visited = @ \cup {current}] IN
                  IF current = goal
                  THEN [marked EXCEPT !.ret = PyList(Append(path, current))]
                  ELSE CHOOSE after \in
                           {dfs_push(marked, current, path, depth, rev) :
                               rev \in {PushOrder(get_neighbors(current))}} : TRUE

RECURSIVE dfs_loop(_, _, _)
dfs_loop(st, goal, depth_limit) ==
    IF st.ret # Running THEN st.ret
    ELSE dfs_loop(dfs_iter(st, goal, depth_limit), goal, depth_limit)

dfs(start, goal, depth_limit) == dfs_loop(dfs_init(start), goal, depth_limit)

\* lines 139-161: the loop, followed for n passes at most
RECURSIVE dfs_passes(_, _, _, _)
dfs_passes(st, goal, depth_limit, n) ==
    IF st.ret # Running \/ n = 0 THEN st
    ELSE dfs_passes(dfs_iter(st, goal, depth_limit), goal, depth_limit, n - 1)

\* the call of line 202 on `start` returns within MaxDfsPasses passes
DfsSettles(start, goal) ==
    dfs_passes(dfs_init(start), goal, DEFAULT_DEPTH_LIMIT, MaxDfsPasses).ret # Running

\* -------------------------------------------------------------------- ucs
\* Python's order on lists of lists: lexicographic, rows then cells
RECURSIVE SeqLess(_, _, _)
SeqLess(a, b, k) ==
    IF k > Len(a) THEN FALSE
    ELSE IF a[k] < b[k] THEN TRUE
    ELSE IF a[k] > b[k] THEN FALSE
    ELSE SeqLess(a, b, k + 1)

GridLess(a, b) == SeqLess(Flatten(a), Flatten(b), 1)

\* the heap ordered by the state alone, as if (state, cost) had been pushed
EntryLeq_by_state(e, f) == e[2] = f[2] \/ GridLess(e[2], f[2])

\* order on the heap's (cost, state) tuples
EntryLeq(e, f) ==
    \/ e[1] < f[1]
    \/ e[1] = f[1] /\ (e[2] = f[2] \/ GridLess(e[2], f[2]))

\* heapq.heappop: the position of the least entry (the first, among equals)
MinIndex(pq) ==
    CHOOSE i \in 1..Len(pq) :
        /\ \A j \in 1..Len(pq) : EntryLeq(pq[i], pq[j])
        /\ \A j \in 1..(i - 1) : pq[j] # pq[i]

RemoveAt(s, i) == SubSeq(s, 1, i - 1) \o SubSeq(s, i + 1, Len(s))

\* lines 164-168
ucs_init(start) ==
    [priority_queue |-> << <<0, start>> >>, visited |-> {},
     came_from |-> EmptyMap, cost_so_far |-> (start :> 0), ret |-> Running]

\* line 184 with `<=`: an equal cost counts as an improvement
CostImproves_on_ties(cost_so_far, neighbor, new_cost) ==
    \/ neighbor \notin DOMAIN cost_so_far
    \/ new_cost <= cost_so_far[neighbor]

\* line 184
CostImproves(cost_so_far, neighbor, new_cost) ==
    \/ neighbor \notin DOMAIN cost_so_far
    \/ new_cost < cost_so_far[neighbor]

\* lines 181-187, neighbours k.. of the list
RECURSIVE ucs_expand(_, _, _, _, _)
ucs_expand(st, current, current_cost, neighbors, k) ==
    IF k > Len(neighbors) THEN st
    ELSE LET neighbor == neighbors[k]
             new_cost == current_cost + 1
         IN  IF CostImproves(st.cost_so_far, neighbor, new_cost)
             THEN ucs_expand([st EXCEPT
                                !.cost_so_far = (neighbor :> new_cost) @@ @,
                                !.priority_queue = Append(@, <<new_cost, neighbor>>),
                                !.came_from = (neighbor :> current) @@ @],
                             current, current_cost, neighbors, k + 1)
             ELSE ucs_expand(st, current, current_cost, neighbors, k + 1)

\* lines 172-187: the rest of a pass, after heappop removed the entry at i
ucs_pass(st, goal, i) ==
    LET current_cost == st.priority_queue[i][1]
        current == st.priority_queue[i][2]
        popped == [st EXCEPT !.priority_queue = RemoveAt(@, i)]
    IN  IF current = goal
        THEN [popped EXCEPT !.ret = PyList(reconstruct_path(st.came_from, current))]
        ELSE IF current \in st.visited THEN popped
        ELSE ucs_expand([popped EXCEPT !.visited = @ \cup {current}],
                        current, current_cost, get_neighbors(current), 1)

\* lines 170-188: one pass of the while loop (or its exit); heappop picks
\* its entry once per pass
ucs_iter(st, goal) ==
    IF st.priority_queue = <<>> THEN [st EXCEPT !.ret = PyNone]
    ELSE CHOOSE after \in {ucs_pass(st, goal, i) :
                              i \in {MinIndex(st.priority_queue)}} : TRUE

RECURSIVE ucs_loop(_, _)
ucs_loop(st, goal) ==
    IF st.ret # Running THEN st.ret ELSE ucs_loop(ucs_iter(st, goal), goal)

ucs(start, goal) == ucs_loop(ucs_init(start), goal)

\* ------------------------------------------------------------ solve_puzzle
Methods == {"BFS", "DFS", "UCS"}

\* the method strings a caller passes: the three buttons' and one unknown
MethodInputs == Methods \cup {"ASTAR"}

\* the depth limits a caller passes to dfs as its third argument
DepthLimits == 0..MaxDepthLimit

\* lines 192-207 without the solvability test of lines 192-194
solve_dispatch_unchecked(state, method) ==
    IF method = "BFS" THEN "bfs"
    ELSE IF method = "DFS" THEN "dfs"
    ELSE IF method = "UCS" THEN "ucs"
    ELSE "Unknown method"

\* lines 192-207: what solve_puzzle does with the global state and a method
\* name -- the message it prints and returns on, or the strategy it calls
solve_dispatch(state, method) ==
    IF ~is_solvable(state) THEN "Puzzle is not solvable!"
    ELSE IF method = "BFS" THEN "bfs"
    ELSE IF method = "DFS" THEN "dfs"
    ELSE IF method = "UCS" THEN "ucs"
    ELSE "Unknown method"

\* lines 209-212
solve_report(path) == IF Truthy(path) THEN "display_path" ELSE "No solution found"

\* =================================================================== state
VARIABLES
    goal_state,      \* module global, line 35
    initial_state,   \* module global, lines 40 and 243
    pc,              \* where the program is: "shuffle", "idle", "bfs", "dfs",
                     \* "ucs" (inside that loop), "returned" (line 209)
    \* shuffle_puzzle's call, kept until the next handler starts:
    moves,           \* its `moves` argument
    done_moves,      \* passes of its loop completed
    arg_before,      \* the caller's grid as it was at the call (<<>>: none)
    shuffle_ret,     \* the value it returned (<<>>: none, or not yet)
    method,          \* solve_puzzle: its argument ("" before the first call)
    depth_limit,     \* dfs: its argument
    start,           \* solve_puzzle: local, line 196 (<<>>: unset)
    goal,            \* solve_puzzle: local, line 197 (<<>>: unset)
    queue,           \* bfs: the deque
    stack,           \* dfs: the list of (state, path, depth)
    priority_queue,  \* ucs: the heap of (cost, state)
    visited,         \* bfs, dfs, ucs: the visited set
    came_from,       \* bfs, ucs: the predecessor map
    cost_so_far,     \* ucs: the best-known-cost map
    path,            \* solve_puzzle: local `path`, the strategy's return value
    printed          \* what the last handler wrote: a message of lines 193,
                     \* 206, 212, or "display_path" for line 210 ("": nothing)

vars == <<goal_state, initial_state, pc, moves, done_moves, arg_before,
          shuffle_ret, method, depth_limit, start, goal, queue, stack,
          priority_queue, visited, came_from, cost_so_far, path, printed>>

shuffle_vars == <<moves, done_moves, arg_before, shuffle_ret>>
search_vars == <<queue, stack, priority_queue, visited, came_from, cost_so_far>>

\* no search call is active: its locals do not exist
NoSearch ==
    /\ queue = <<>> /\ stack = <<>> /\ priority_queue = <<>>
    /\ visited = {} /\ came_from = EmptyMap /\ cost_so_far = EmptyMap

NoSearchNext ==
    /\ queue' = <<>> /\ stack' = <<>> /\ priority_queue' = <<>>
    /\ visited' = {} /\ came_from' = EmptyMap /\ cost_so_far' = EmptyMap

NoSolve ==
    /\ method = "" /\ depth_limit = 0 /\ start = <<>> /\ goal = <<>>
    /\ path = PyNone /\ printed = ""

\* lines 35-40, then the call of line 261 about to run its loop
Init ==
    /\ goal_state = GoalLiteral
    /\ initial_state = CopyGrid(GoalLiteral)
    /\ pc = "shuffle"
    /\ moves = SHUFFLE_MOVES
    /\ done_moves = 0
    /\ arg_before = CopyGrid(GoalLiteral)
    /\ shuffle_ret = <<>>
    /\ NoSolve
    /\ NoSearch

\* ----------------------------------------------------------------- actions
\* lines 100-102: one pass of shuffle_puzzle's loop on the caller's grid
ShuffleStep ==
    /\ pc = "shuffle"
    /\ done_moves < moves
    /\ LET neighbors == get_neighbors(initial_state) IN
       \E k \in 1..Len(neighbors) :
           initial_state' = SliceAssign(initial_state, neighbors[k])
    /\ done_moves' = done_moves + 1
    /\ UNCHANGED <<goal_state, pc, moves, arg_before, shuffle_ret, method,
                   depth_limit, start, goal, path, printed>>
    /\ UNCHANGED search_vars

\* line 103: the loop is over, `return state`
ShuffleReturn ==
    /\ pc = "shuffle"
    /\ done_moves = moves
    /\ shuffle_ret' = initial_state
    /\ pc' = "idle"
    /\ UNCHANGED <<goal_state, initial_state, moves, done_moves, arg_before,
                   method, depth_limit, start, goal, path, printed>>
    /\ UNCHANGED search_vars

\* lines 240-244: the Shuffle button, up to the call of shuffle_puzzle
ResetPuzzle ==
    /\ pc = "idle"
    /\ initial_state' = CopyGrid(goal_state)
    /\ arg_before' = CopyGrid(goal_state)
    /\ moves' = SHUFFLE_MOVES
    /\ done_moves' = 0
    /\ shuffle_ret' = <<>>
    /\ pc' = "shuffle"
    /\ method' = "" /\ depth_limit' = 0 /\ start' = <<>> /\ goal' = <<>>
    /\ path' = PyNone /\ printed' = ""
    /\ UNCHANGED goal_state
    /\ UNCHANGED search_vars

\* lines 190-207: solve_puzzle(method), up to the first pass of the
\* strategy's loop; the caller's action says which method is passed
SolvePuzzle ==
    /\ pc = "idle"
    /\ LET d == solve_dispatch(initial_state, method') IN
         /\ path' = PyNone
         /\ IF d \in {"bfs", "dfs", "ucs"}
            THEN /\ pc' = d
                 /\ printed' = ""
                 /\ start' = CopyGrid(initial_state)
                 /\ goal' = CopyGrid(goal_state)
                 /\ depth_limit' = (IF d = "dfs" THEN DEFAULT_DEPTH_LIMIT ELSE 0)
                 /\ LET b == bfs_init(start')
                        s == dfs_init(start')
                        u == ucs_init(start')
                    IN  /\ queue' = (IF d = "bfs" THEN b.queue ELSE <<>>)
                        /\ stack' = (IF d = "dfs" THEN s.stack ELSE <<>>)
                        /\ priority_queue' =
                               (IF d = "ucs" THEN u.priority_queue ELSE <<>>)
                        /\ visited' = (IF d = "bfs" THEN b.visited ELSE {})
                        /\ came_from' = EmptyMap
                        /\ cost_so_far' =
                               (IF d = "ucs" THEN u.cost_so_far ELSE EmptyMap)
            ELSE /\ pc' = "idle"
                 /\ printed' = d
                 /\ start' = (IF is_solvable(initial_state)
                              THEN CopyGrid(initial_state) ELSE <<>>)
                 /\ goal' = (IF is_solvable(initial_state)
                             THEN CopyGrid(goal_state) ELSE <<>>)
                 /\ depth_limit' = 0
                 /\ NoSearchNext
    /\ moves' = 0 /\ done_moves' = 0 /\ arg_before' = <<>> /\ shuffle_ret' = <<>>
    /\ UNCHANGED <<goal_state, initial_state>>

\* solve_puzzle("BFS"): the Solve BFS button (lines 223, 275-276)
SolveBFS ==
    /\ method' = "BFS"
    /\ SolvePuzzle

\* solve_puzzle("DFS"): the Solve DFS button (lines 224, 275-276)
SolveDFS ==
    /\ method' = "DFS"
    /\ SolvePuzzle

\* solve_puzzle("UCS"): the Solve UCS button (lines 225, 275-276)
SolveUCS ==
    /\ method' = "UCS"
    /\ SolvePuzzle

\* solve_puzzle called with a method it does not know (lines 205-207); no
\* button does so
SolveUnknown ==
    /\ method' \in MethodInputs \ Methods
    /\ SolvePuzzle

\* lines 122-133: one pass of bfs's loop
BfsStep ==
    /\ pc = "bfs"
    /\ \E st \in {bfs_iter([queue |-> queue, visited |-> visited,
                           came_from |-> came_from, ret |-> Running], goal)} :
           /\ queue' = st.queue
           /\ visited' = st.visited
           /\ came_from' = st.came_from
           /\ IF st.ret = Running
              THEN pc' = "bfs" /\ path' = path
              ELSE pc' = "returned" /\ path' = st.ret
    /\ UNCHANGED <<goal_state, initial_state, method, depth_limit, start, goal,
                   stack, priority_queue, cost_so_far, printed>>
    /\ UNCHANGED shuffle_vars

\* lines 139-161: one pass of dfs's loop
DfsStep ==
    /\ pc = "dfs"
    /\ \E st \in {dfs_iter([stack |-> stack, visited |-> visited,
                           ret |-> Running], goal, depth_limit)} :
           /\ stack' = st.stack
           /\ visited' = st.visited
           /\ IF st.ret = Running
              THEN pc' = "dfs" /\ path' = path
              ELSE pc' = "returned" /\ path' = st.ret
    /\ UNCHANGED <<goal_state, initial_state, method, depth_limit, start, goal,
                   queue, priority_queue, came_from, cost_so_far, printed>>
    /\ UNCHANGED shuffle_vars

\* lines 170-188: one pass of ucs's loop
UcsStep ==
    /\ pc = "ucs"
    /\ \E st \in {ucs_iter([priority_queue |-> priority_queue,
                           visited |-> visited, came_from |-> came_from,
                           cost_so_far |-> cost_so_far, ret |-> Running], goal)} :
           /\ priority_queue' = st.priority_queue
           /\ visited' = st.visited
           /\ came_from' = st.came_from
           /\ cost_so_far' = st.cost_so_far
           /\ IF st.ret = Running
              THEN pc' = "ucs" /\ path' = path
              ELSE pc' = "returned" /\ path' = st.ret
    /\ UNCHANGED <<goal_state, initial_state, method, depth_limit, start, goal,
                   queue, stack, printed>>
    /\ UNCHANGED shuffle_vars

\* lines 209-212: the strategy has returned; its locals are gone
SolveReport ==
    /\ pc = "returned"
    /\ method \in Methods
    /\ printed' = solve_report(path)
    /\ pc' = "idle"
    /\ NoSearchNext
    /\ UNCHANGED <<goal_state, initial_state, method, depth_limit, start, goal,
                   path>>
    /\ UNCHANGED shuffle_vars

Next ==
    \/ ShuffleStep
    \/ ShuffleReturn
    \/ ResetPuzzle
    \/ SolveBFS
    \/ SolveDFS
    \/ SolveUCS
    \/ BfsStep
    \/ DfsStep
    \/ UcsStep
    \/ SolveReport

\* the program: start-up shuffle, then the main loop's button events
Spec == Init /\ [][Next]_vars

\* ------------------------------------------- shuffle_puzzle called directly
InputGrids == Ball({GoalLiteral, OddLiteral}, MaxInputSlides)

\* line 99: a caller's own call shuffle_puzzle(grid, moves) on a grid it
\* built, about to run its loop; the global names the caller's grid
InitApi ==
    /\ goal_state = GoalLiteral
    /\ initial_state \in InputGrids
    /\ pc = "shuffle"
    /\ moves \in 0..MaxMoves
    /\ done_moves = 0
    /\ arg_before = initial_state
    /\ shuffle_ret = <<>>
    /\ NoSolve
    /\ NoSearch

\* calls of shuffle_puzzle, each followed by any number of calls
\* solve_puzzle("BFS") and solve_puzzle("UCS") on the shuffled grid
NextApi ==
    \/ ShuffleStep
    \/ ShuffleReturn
    \/ SolveBFS
    \/ SolveUCS
    \/ BfsStep
    \/ UcsStep
    \/ SolveReport

SpecApi == InitApi /\ [][NextApi]_vars

\* ------------------------------------------- shuffles of a copy of the goal
\* lines 260-261 with a caller's `moves`: the grid is a copy of the goal and
\* shuffle_puzzle(grid, moves) is about to run its loop
InitShuffle ==
    /\ goal_state = GoalLiteral
    /\ initial_state = CopyGrid(GoalLiteral)
    /\ pc = "shuffle"
    /\ moves \in 0..MaxShuffleMoves
    /\ done_moves = 0
    /\ arg_before = CopyGrid(GoalLiteral)
    /\ shuffle_ret = <<>>
    /\ NoSolve
    /\ NoSearch

\* lines 243, 99: a caller makes its grid a copy of the goal and calls
\* shuffle_puzzle(grid, moves) on it, as reset_puzzle does with moves = 30
ShuffleCall ==
    /\ pc = "idle"
    /\ moves' \in 0..MaxShuffleMoves
    /\ initial_state' = CopyGrid(goal_state)
    /\ arg_before' = CopyGrid(goal_state)
    /\ done_moves' = 0
    /\ shuffle_ret' = <<>>
    /\ pc' = "shuffle"
    /\ method' = "" /\ depth_limit' = 0 /\ start' = <<>> /\ goal' = <<>>
    /\ path' = PyNone /\ printed' = ""
    /\ UNCHANGED goal_state
    /\ UNCHANGED search_vars

\* shuffles of a copy of the goal, each followed by any number of calls
\* solve_puzzle("BFS") and solve_puzzle("UCS") on the shuffled grid
NextShuffle ==
    \/ ShuffleStep
    \/ ShuffleReturn
    \/ ShuffleCall
    \/ SolveBFS
    \/ SolveUCS
    \/ BfsStep
    \/ UcsStep
    \/ SolveReport

SpecShuffle == InitShuffle /\ [][NextShuffle]_vars

\* --------------------------------------------- solve_puzzle called directly
\* the grids near the goal from which dfs, with its default depth limit,
\* returns within MaxDfsPasses passes
QuickGrids ==
    {g \in Ball({GoalLiteral}, MaxQuickSlides) : DfsSettles(g, GoalLiteral)}

SolveGrids == QuickGrids \cup Ball({OddLiteral}, MaxInputSlides)

\* line 190: the program waiting for a call of solve_puzzle, its grid one
\* of the solve grids
InitSolve ==
    /\ goal_state = GoalLiteral
    /\ initial_state \in SolveGrids
    /\ pc = "idle"
    /\ moves = 0 /\ done_moves = 0 /\ arg_before = <<>> /\ shuffle_ret = <<>>
    /\ NoSolve
    /\ NoSearch

\* calls of solve_puzzle with any method, each run to its report
NextSolve ==
    \/ SolveBFS
    \/ SolveDFS
    \/ SolveUCS
    \/ SolveUnknown
    \/ BfsStep
    \/ DfsStep
    \/ UcsStep
    \/ SolveReport

SpecSolve == InitSolve /\ [][NextSolve]_vars

\* ------------------------------------- the end of a shuffle, then solves
\* the grids the loop of lines 100-102 can hold after r more passes on a
\* grid of B
RECURSIVE After(_, _)
After(B, r) ==
    IF r = 0 THEN B
    ELSE After(UNION {Range(get_neighbors(g)) : g \in B}, r - 1)

\* a pass moves the blank by one cell: after n passes on a copy of the goal
\* the blank's row and column, added, are even exactly when n is
BlankParity(state) == (find_zero(state)[1] + find_zero(state)[2]) % 2

\* the grids the 30-move shuffle can hold with r passes left, whatever it
\* picks from there, such that dfs returns within MaxDfsPasses passes on the
\* grid the shuffle ends with
TailGrids(r) ==
    {g \in Ball({GoalLiteral}, MaxQuickSlides + r) :
        /\ BlankParity(g) = (SHUFFLE_MOVES - r) % 2
        /\ After({g}, r) \subseteq QuickGrids}

\* lines 100-103: the program in its start-up shuffle, or in the shuffle of
\* a reset_puzzle, with at most MaxTailPasses passes of the loop left
InitTail ==
    /\ goal_state = GoalLiteral
    /\ pc = "shuffle"
    /\ moves = SHUFFLE_MOVES
    /\ done_moves \in (SHUFFLE_MOVES - MaxTailPasses)..SHUFFLE_MOVES
    /\ initial_state \in TailGrids(moves - done_moves)
    /\ arg_before = CopyGrid(GoalLiteral)
    /\ shuffle_ret = <<>>
    /\ NoSolve
    /\ NoSearch

\* the rest of the shuffle, then the three Solve buttons in any order and
\* number
NextTail ==
    \/ ShuffleStep
    \/ ShuffleReturn
    \/ SolveBFS
    \/ SolveDFS
    \/ SolveUCS
    \/ BfsStep
    \/ DfsStep
    \/ UcsStep
    \/ SolveReport

SpecTail == InitTail /\ [][NextTail]_vars

\* ------------------------------------------------- dfs called directly
\* the grids a caller hands to dfs: of either parity class
CallGrids == Ball({GoalLiteral, OddLiteral}, MaxCallSlides)

\* line 135: the program waiting for a call of dfs, its grid any of the
\* call grids
InitCalls ==
    /\ goal_state = GoalLiteral
    /\ initial_state \in CallGrids
    /\ pc = "idle"
    /\ moves = 0 /\ done_moves = 0 /\ arg_before = <<>> /\ shuffle_ret = <<>>
    /\ NoSolve
    /\ NoSearch

\* lines 135-137: dfs(start, goal, depth_limit) called on the grid as it is,
\* solvable or not, without solve_puzzle's test; `method` records the callee
DfsEnter ==
    /\ pc = "idle"
    /\ method' = "dfs"
    /\ start' = CopyGrid(initial_state)
    /\ goal' = CopyGrid(goal_state)
    /\ path' = PyNone
    /\ stack' = dfs_init(start').stack
    /\ visited' = dfs_init(start').visited
    /\ pc' = "dfs"
    /\ moves' = 0 /\ done_moves' = 0 /\ arg_before' = <<>> /\ shuffle_ret' = <<>>
    /\ UNCHANGED <<goal_state, initial_state, queue, priority_queue, came_from,
                   cost_so_far, printed>>

DfsCall ==
    /\ depth_limit' \in DepthLimits
    /\ DfsEnter

\* the same call with a depth limit that lets the search wander
DfsDeepCall ==
    /\ depth_limit' = MaxDeepLimit
    /\ DfsEnter

\* lines 153, 161: the direct call has returned to its caller
DfsCallReturn ==
    /\ pc = "returned"
    /\ method = "dfs"
    /\ pc' = "idle"
    /\ NoSearchNext
    /\ UNCHANGED <<goal_state, initial_state, method, depth_limit, start, goal,
                   path, printed>>
    /\ UNCHANGED shuffle_vars

\* calls dfs(start, goal, depth_limit), each run to its return
NextCalls ==
    \/ DfsCall
    \/ DfsStep
    \/ DfsCallReturn

SpecCalls == InitCalls /\ [][NextCalls]_vars

\* ------------------------------------------------ dfs with a deep limit
DfsGrids == Ball({GoalLiteral}, MaxDfsSlides)

\* the program waiting for a call, its grid a few slides off the goal
InitDfs ==
    /\ goal_state = GoalLiteral
    /\ initial_state \in DfsGrids
    /\ pc = "idle"
    /\ moves = 0 /\ done_moves = 0 /\ arg_before = <<>> /\ shuffle_ret = <<>>
    /\ NoSolve
    /\ NoSearch

NextDfs ==
    \/ DfsDeepCall
    \/ DfsStep
    \/ DfsCallReturn

SpecDfs == InitDfs /\ [][NextDfs]_vars

\* ================================================================== claims
IsNeighbor(a, b) == b \in Range(get_neighbors(a))

\* no grid of the runs followed is further than this from the goal
MaxSlides == MaxShuffleMoves + MaxMoves + MaxInputSlides

\* the least number of slides that take `from` to `to` (MaxSlides + 1: more
\* than MaxSlides), by growing the set of grids reachable from `from`
RECURSIVE SlidesFrom(_, _, _)
SlidesFrom(B, to, k) ==
    IF to \in B \/ k > MaxSlides THEN k
    ELSE SlidesFrom(B \cup UNION {Range(get_neighbors(g)) : g \in B}, to, k + 1)

MinSlides(from, to) == SlidesFrom({from}, to, 0)

Returned(m) == pc = "returned" /\ method = m

\* dfs has returned, called by solve_puzzle or directly
DfsReturned == pc = "returned" /\ method \in {"DFS", "dfs"}

\* C1 (as stated): every non-empty Path a strategy returns starts with the
\* start argument, ends with the goal, and steps between neighbours; for a
\* start one slide from the goal, bfs and ucs return <<start, goal>>.
C1_PathFromStartToGoal ==
    (pc = "returned" /\ path.kind = "list" /\ path.list # <<>>) =>
        /\ path.list[1] = start
        /\ path.list[Len(path.list)] = goal
        /\ \A k \in 1..(Len(path.list) - 1) :
               IsNeighbor(path.list[k], path.list[k + 1])
        /\ (IsNeighbor(start, goal) /\ method \in {"BFS", "UCS"}) =>
               path.list = <<start, goal>>

\* C2 (as stated): the Path bfs returns has as many edges (elements less
\* one) as the least number of slides from start to goal.
C2_BfsEdgeCountMinimal ==
    (Returned("BFS") /\ path.kind = "list" /\ path.list # <<>>) =>
        Len(path.list) - 1 = MinSlides(start, goal)

\* C3: ucs and bfs called on the same start return Paths of equal length.
C3_UcsBfsEqualLength ==
    /\ Returned("BFS") =>
           LET u == ucs(start, goal) IN
           /\ u.kind = path.kind
           /\ Len(u.list) = Len(path.list)
    /\ Returned("UCS") =>
           LET b == bfs(start, goal) IN
           /\ b.kind = path.kind
           /\ Len(b.list) = Len(path.list)

C3_Witness ==
    /\ Returned("UCS")
    /\ path.kind = "list"
    /\ Len(path.list) >= 3
    /\ bfs(start, goal).kind = "list"

\* C4 (as stated): solving a solvable grid with BFS or UCS never ends with
\* "No solution found".
C4_SolvableNeverNotFound ==
    (method \in {"BFS", "UCS"} /\ is_solvable(initial_state)) =>
        printed # "No solution found"

\* C5: a grid and each of its neighbours are solvable alike, so the grid a
\* shuffle is working on stays solvable, or unsolvable, as it was at the call.
C5_ParityInvariantUnderSlide ==
    /\ \A n \in Range(get_neighbors(initial_state)) :
           is_solvable(n) = is_solvable(initial_state)
    /\ arg_before # <<>> =>
           is_solvable(initial_state) = is_solvable(arg_before)

C5_Witness ==
    /\ pc = "shuffle"
    /\ done_moves >= 2
    /\ ~is_solvable(initial_state)
    /\ find_zero(initial_state) = <<1, 1>>
    /\ Len(get_neighbors(initial_state)) = 4

\* C6: get_neighbors returns 2 grids for a corner blank, 3 for an edge, 4
\* for the centre; each is a permutation of 0..8 that differs from the grid
\* in exactly the blank cell and one orthogonally adjacent cell, exchanged.
Cells == (1..GRID_SIZE) \X (1..GRID_SIZE)

IsPermutation(g) == {g[c[1]][c[2]] : c \in Cells} = 0..(GRID_SIZE * GRID_SIZE - 1)

Abs(x) == IF x < 0 THEN -x ELSE x

\* how many of the blank's coordinates lie on the border
OnBorder(x) == IF x = 0 \/ x = GRID_SIZE - 1 THEN 1 ELSE 0

AdjacentSwap(g, n) ==
    LET diff == {c \in Cells : g[c[1]][c[2]] # n[c[1]][c[2]]}
        z == find_zero(g)
        zc == <<z[1] + 1, z[2] + 1>>
    IN  /\ Cardinality(diff) = 2
        /\ zc \in diff
        /\ \A c \in diff \ {zc} :
               /\ Abs(c[1] - zc[1]) + Abs(c[2] - zc[2]) = 1
               /\ n[zc[1]][zc[2]] = g[c[1]][c[2]]
               /\ n[c[1]][c[2]] = 0

C6_NeighborsShape ==
    LET g == initial_state
        z == find_zero(g)
        ns == get_neighbors(g)
    IN  /\ IsPermutation(g)
        /\ Len(ns) = 4 - OnBorder(z[1]) - OnBorder(z[2])
        /\ Len(ns) \in 2..4
        /\ Cardinality(Range(ns)) = Len(ns)
        /\ \A n \in Range(ns) : IsPermutation(n) /\ AdjacentSwap(g, n)

C6_Witness ==
    /\ shuffle_ret # <<>>
    /\ done_moves >= 2
    /\ find_zero(initial_state) = <<0, 1>>
    /\ Len(get_neighbors(initial_state)) = 3
    /\ ~is_solvable(initial_state)

\* C7: whatever the number of moves and the neighbours chosen, the grid
\* shuffle_puzzle is working on, and the one it returns, is solvable.
C7_ShuffleSolvable ==
    /\ pc = "shuffle" => is_solvable(initial_state)
    /\ shuffle_ret # <<>> => is_solvable(shuffle_ret)

C7_Witness ==
    /\ shuffle_ret # <<>>
    /\ arg_before = goal_state
    /\ moves = MaxShuffleMoves
    /\ done_moves = moves
    /\ MinSlides(shuffle_ret, goal_state) = moves

\* C8: a call of solve_puzzle enters a strategy only if the grid is solvable
\* and the method is BFS, DFS or UCS, and then the one named; otherwise it
\* prints the failure and returns with no search started.
C8_SearchOnlyWhenSolvable ==
    [][(pc = "idle" /\ pc' # "shuffle") =>
          /\ pc' \in {"bfs", "dfs", "ucs"} =>
                /\ is_solvable(initial_state)
                /\ method' \in Methods
                /\ pc' = (IF method' = "BFS" THEN "bfs"
                          ELSE IF method' = "DFS" THEN "dfs" ELSE "ucs")
          /\ (~is_solvable(initial_state) \/ method' \notin Methods) =>
                /\ pc' = "idle"
                /\ printed' = (IF ~is_solvable(initial_state)
                               THEN "Puzzle is not solvable!"
                               ELSE "Unknown method")
                /\ NoSearchNext
      ]_vars

C8_Witness ==
    /\ pc = "idle"
    /\ ~is_solvable(initial_state)
    /\ method \in Methods
    /\ printed = "Puzzle is not solvable!"
    /\ NoSearch

\* C9: dfs never expands an entry deeper than the limit L (so no entry is
\* deeper than L + 1 and each entry's path has its depth as length), a Path
\* it returns has at most L slides, and with L = 0 it returns a Path exactly
\* when start equals goal.
C9_DfsDepthLimit ==
    /\ pc = "dfs" =>
           \A k \in 1..Len(stack) :
               /\ stack[k][3] <= depth_limit + 1
               /\ Len(stack[k][2]) = stack[k][3]
    /\ (DfsReturned /\ path.kind = "list") =>
           /\ Len(path.list) >= 1
           /\ Len(path.list) - 1 <= depth_limit
    /\ (DfsReturned /\ depth_limit = 0) =>
           (path.kind = "list" <=> start = goal)

C9_Witness ==
    /\ Returned("dfs")
    /\ depth_limit = 0
    /\ start # goal
    /\ path = PyNone

\* C10 (as stated): after shuffle_puzzle the caller's grid holds the values
\* it held before the call.
C10_ShuffleLeavesArgument ==
    shuffle_ret # <<>> => initial_state = arg_before

\* C10 (amended): shuffle_puzzle works in place -- after each pass the
\* caller's grid is one slide further from what it was, so it differs from
\* the grid before the call after an odd number of passes, and the value
\* returned is the caller's grid itself.
C10_ShuffleInPlace ==
    /\ (pc = "shuffle" /\ done_moves % 2 = 1) => initial_state # arg_before
    /\ shuffle_ret # <<>> =>
           /\ initial_state = shuffle_ret
           /\ moves % 2 = 1 => initial_state # arg_before
           /\ moves = 0 => initial_state = arg_before

C10_Witness ==
    /\ shuffle_ret # <<>>
    /\ moves = 3
    /\ initial_state # arg_before
    /\ method = ""

C12_FailsWhenTerminalAbsent ==
    (pc = "returned" /\ method \in {"BFS", "UCS"} /\ goal \notin DOMAIN came_from) =>
        path.kind # "list"

NoRepeat(s) == \A i, j \in 1..Len(s) : s[i] = s[j] => i = j

\* the grids a pass of bfs's loop appended to the deque
BfsAppended == SubSeq(queue', Len(queue), Len(queue'))

\* the grids bfs has popped and expanded
BfsExpanded == visited \ Range(queue)

\* C14: in bfs every grid of the frontier is in the visited set, and a pass
\* of the loop appends only grids that were not visited before it, each once,
\* marking them visited -- so no grid is appended twice.
C14_BfsFrontier ==
    [][pc = "bfs" =>
          /\ Range(queue) \subseteq visited
          /\ NoRepeat(queue)
          /\ pc' = "bfs" =>
                 /\ queue' = Tail(queue) \o BfsAppended
                 /\ Range(BfsAppended) \cap visited = {}
                 /\ NoRepeat(BfsAppended)
                 /\ visited' = visited \cup Range(BfsAppended)
                 /\ Range(queue') \subseteq visited']_vars

\* a queued grid with two expanded neighbours: the second one found it
\* visited and did not append it again
C14_Witness ==
    /\ pc = "bfs"
    /\ \E g \in Range(queue) :
           Cardinality(Range(get_neighbors(g)) \cap BfsExpanded) >= 2

\* the grid the predecessor map leads back to from g; n bounds the walk
RECURSIVE RootOf(_, _)
RootOf(g, n) ==
    IF g \notin DOMAIN came_from \/ n = 0 THEN g
    ELSE RootOf(came_from[g], n - 1)

\* what C15 asks of a state and of the step that leaves it
PredecessorTreeKept ==
    pc \in {"bfs", "ucs"} =>
        /\ start \notin DOMAIN came_from
        /\ start \notin DOMAIN came_from'
        /\ \A g \in DOMAIN came_from :
               /\ IsNeighbor(came_from[g], g)
               /\ RootOf(g, Cardinality(DOMAIN came_from)) = start
               /\ g \in DOMAIN came_from'
               /\ came_from'[g] = came_from[g]

\* C15: while bfs or ucs runs, the start is never a key of the predecessor
\* map, every key maps to a grid one slide away, the walk from any key ends
\* at the start (a tree rooted there, no cycle), and an entry once written
\* is never changed or removed.
C15_PredecessorTree == [][PredecessorTreeKept]_vars

\* ucs has expanded a grid one slide nearer the start than a recorded grid
\* next to it, and not its predecessor: the entry was there to be
\* overwritten, and was kept
C15_Witness ==
    /\ pc = "ucs"
    /\ \E g \in DOMAIN came_from :
           \E n \in Range(get_neighbors(g)) \cap visited :
               n # came_from[g] /\ cost_so_far[n] + 1 = cost_so_far[g]

\* the entry dfs's next pass pops
DfsTop == stack[Len(stack)]

\* what C16 asks of a pass of dfs's loop
DfsPassMarksOnPop ==
    (pc = "dfs" /\ stack # <<>>) =>
        LET current == DfsTop[1]
            depth == DfsTop[3]
            rest == SubSeq(stack, 1, Len(stack) - 1)
        IN  /\ visited \subseteq visited'
            /\ visited' \subseteq visited \cup {current}
            /\ current \in visited' \ visited => depth <= depth_limit
            /\ (depth > depth_limit \/ current \in visited) =>
                   stack' = rest /\ visited' = visited /\ pc' = "dfs"
            /\ stack' # rest =>
                   /\ current \notin visited
                   /\ current \in visited'
                   /\ SubSeq(stack', 1, Len(rest)) = rest

\* C16: a pass of dfs's loop marks no grid but the popped one, and that only
\* within the depth limit; a popped entry that is over the limit or whose
\* grid is visited is dropped and nothing else changes; entries are pushed
\* only by the pass that marks the popped grid, so no grid is expanded twice.
C16_DfsMarksOnPop == [][DfsPassMarksOnPop]_vars

\* the entry about to be popped is within the limit and its grid, pushed
\* while unvisited, has been marked since by the pop of another entry
C16_Witness ==
    /\ pc = "dfs"
    /\ stack # <<>>
    /\ DfsTop[1] \in visited
    /\ DfsTop[3] <= depth_limit

\* the blank's moves, in the order the claim names: up, down, left, right
UpDownLeftRight == << <<-1, 0>>, <<1, 0>>, <<0, -1>>, <<0, 1>> >>

\* how the blank moved from `state` to each grid of `neighbors`
BlankMoves(state, neighbors) ==
    [k \in 1..Len(neighbors) |->
        <<find_zero(neighbors[k])[1] - find_zero(state)[1],
          find_zero(neighbors[k])[2] - find_zero(state)[2]>>]

\* the moves of UpDownLeftRight that keep the blank of `state` on the board
MovesOnBoard(state) ==
    LET Fits(d) == /\ find_zero(state)[1] + d[1] \in 0..(GRID_SIZE - 1)
                   /\ find_zero(state)[2] + d[2] \in 0..(GRID_SIZE - 1)
    IN  SelectSeq(UpDownLeftRight, Fits)

\* the neighbours of `state` outside `seen`, in get_neighbors' order
Unvisited(state, seen) ==
    LET Fresh(n) == n \notin seen IN SelectSeq(get_neighbors(state), Fresh)

\* what C17 asks of a pass of dfs's loop
DfsPassPushesReversed ==
    (pc = "dfs" /\ stack # <<>>) =>
        LET current == DfsTop[1]
            rest == SubSeq(stack, 1, Len(stack) - 1)
            fresh == Unvisited(current, visited')
        IN  /\ BlankMoves(current, get_neighbors(current)) = MovesOnBoard(current)
            /\ stack' # rest =>
                   /\ Len(stack') = Len(rest) + Len(fresh)
                   /\ \A k \in 1..Len(fresh) :
                          stack'[Len(stack') + 1 - k][1] = fresh[k]

\* C17: the neighbours of a grid dfs pops come in the order up, down, left,
\* right of the blank, moves off the board left out; and when a pass pushes,
\* the new entries, read from the top of the stack down, are the grid's
\* unvisited neighbours in that order -- the first is popped next.
C17_DfsPushesReversed == [][DfsPassPushesReversed]_vars

\* two entries of one expansion on top of the stack, the upper one the
\* first unvisited neighbour of the expanded grid, whose first neighbour
\* (the grid it was reached from) was visited and left out
C17_Witness ==
    /\ pc = "dfs"
    /\ Len(stack) >= 2
    /\ DfsTop[2] # <<>>
    /\ stack[Len(stack) - 1][2] = DfsTop[2]
    /\ LET parent == DfsTop[2][Len(DfsTop[2])] IN
           /\ get_neighbors(parent)[1] \in visited
           /\ Unvisited(parent, visited) # <<>>
           /\ Unvisited(parent, visited)[1] = DfsTop[1]
           /\ Len(Unvisited(parent, visited)) >= 2

\* the grids on ucs's heap, in heap-list order
HeapGrids == [k \in 1..Len(priority_queue) |-> priority_queue[k][2]]

\* the entries a pass of ucs's loop pushed
UcsPushed == SubSeq(priority_queue', Len(priority_queue), Len(priority_queue'))

\* what C18 asks of a state of ucs and of the pass that leaves it
UcsWritesOnce ==
    pc = "ucs" =>
        /\ NoRepeat(HeapGrids)
        /\ Range(HeapGrids) \cap visited = {}
        /\ DOMAIN cost_so_far = visited \cup Range(HeapGrids)
        /\ DOMAIN came_from = DOMAIN cost_so_far \ {start}
        /\ \A g \in DOMAIN cost_so_far :
               g \in DOMAIN cost_so_far' /\ cost_so_far'[g] = cost_so_far[g]
        /\ \A g \in DOMAIN came_from :
               g \in DOMAIN came_from' /\ came_from'[g] = came_from[g]
        /\ \A k \in 1..Len(UcsPushed) :
               /\ UcsPushed[k][2] \notin DOMAIN cost_so_far
               /\ cost_so_far'[UcsPushed[k][2]] = UcsPushed[k][1]

\* C18: in ucs no grid is on the heap twice, no grid on the heap is visited
\* (so the pop never finds a stale entry), the recorded grids are exactly
\* the visited ones and those on the heap, and a pass pushes only grids
\* without a recorded cost and rewrites no cost and no predecessor.
C18_UcsWritesOnce == [][UcsWritesOnce]_vars

\* a grid waits on the heap with two expanded neighbours: the second one
\* reached it at the recorded cost, which did not count as an improvement
C18_Witness ==
    /\ pc = "ucs"
    /\ \E g \in Range(HeapGrids) :
           Cardinality({n \in Range(get_neighbors(g)) \cap visited :
                           cost_so_far[n] + 1 = cost_so_far[g]}) >= 2

\* C19: a Path dfs returns holds no grid twice; while dfs runs, the path of
\* every stack entry followed by the entry's grid holds no grid twice, is as
\* long as the entry's depth says, and its grids are all visited.
C19_DfsPathSimple ==
    /\ pc = "dfs" =>
           \A k \in 1..Len(stack) :
               /\ NoRepeat(Append(stack[k][2], stack[k][1]))
               /\ Len(stack[k][2]) = stack[k][3]
               /\ Range(stack[k][2]) \subseteq visited
    /\ (pc = "returned" /\ method = "dfs" /\ path.kind = "list") =>
           /\ NoRepeat(path.list)
           /\ Range(path.list) \subseteq visited

\* dfs has returned a Path after backing out of other branches: it visited
\* more grids than the Path holds, and the Path is longer than the shuffle
C19_Witness ==
    /\ pc = "returned"
    /\ method = "dfs"
    /\ path.kind = "list"
    /\ Len(path.list) > MaxDfsSlides + 3
    /\ Cardinality(visited) > Len(path.list)

====
